---- MODULE Spec2Model ----
(***************************************************************************)
(* Model of the electronics-store backend (src/main.py): the product      *)
(* collection of the document store, the startup seeder and the request   *)
(* handlers.                                                               *)
(*                                                                         *)
(* Representation.  Text the program inspects (title, category, q, the    *)
(* product id) is a sequence of code points, so that regular-expression   *)
(* search, case folding, hex parsing and sorted() are computed and not    *)
(* assumed.  Text the program only copies (description, image) is a TLA+  *)
(* string.  An optional value is <<>> (None) or <<v>> (a value).  Prices  *)
(* are integers in cents (699.0 dollars is 69900).                         *)
(***************************************************************************)
EXTENDS Integers, Sequences, FiniteSets, TLC

(* ------------------------------ bounds -------------------------------- *)

\* Documents the create endpoint may add before the model stops creating.
MaxCreates == 2

\* Process instances: Spec runs the first alone, SpecConc runs both.
Inst == {1, 2}

(* --------------------------- optional values -------------------------- *)

None == <<>>

Some(x) == <<x>>

\* Python truthiness of an Optional[str]: None and "" are both false.
Truthy(o) == o # None /\ o[1] # <<>>

(* ------------------------------ text ---------------------------------- *)

\* Case folding of one code point, as a case-insensitive match does for ASCII.
Fold(c) == IF c >= 65 /\ c <= 90 THEN c + 32 ELSE c

\* One pattern character against one text character: "." matches any
\* character but a newline, every other character of the model's patterns
\* is a literal, compared case-insensitively (option "i").
CharMatch(p, c) == IF p = 46 THEN c # 10 ELSE Fold(p) = Fold(c)

\* The pattern matches the text starting at position i.
RegexMatchAt(pat, text, i) ==
    /\ i + Len(pat) - 1 <= Len(text)
    /\ \A k \in 1..Len(pat) : CharMatch(pat[k], text[i + k - 1])

\* {"$regex": pat, "$options": "i"}: an unanchored search.
RegexSearch(pat, text) == \E i \in 1..(Len(text) + 1) : RegexMatchAt(pat, text, i)

\* Python's str comparison: lexicographic on code points.
StrLess(a, b) ==
    \E k \in 1..(Len(b)) :
        /\ \A j \in 1..(k - 1) : j <= Len(a) /\ a[j] = b[j]
        /\ (k > Len(a) \/ (k <= Len(a) /\ a[k] < b[k]))

RECURSIVE sorted(_)
\* sorted(values): ascending by StrLess.
sorted(S) ==
    IF S = {} THEN <<>>
    ELSE LET m == CHOOSE x \in S : \A y \in S : y = x \/ StrLess(x, y)
         IN  <<m>> \o sorted(S \ {m})

(* ----------------------------- ObjectId ------------------------------- *)

\* An ObjectId is 12 bytes, written as 24 hexadecimal digits.
OidHexLen == 24

IsHexChar(c) == (c >= 48 /\ c <= 57) \/ (c >= 97 /\ c <= 102) \/ (c >= 65 /\ c <= 70)

HexVal(c) == IF c <= 57 THEN c - 48 ELSE IF c >= 97 THEN c - 87 ELSE c - 55

HexChar(v) == IF v < 10 THEN 48 + v ELSE 87 + v

\* ObjectId(product_id): succeeds on exactly 24 hex digits of either case.
ObjectIdValid(s) == Len(s) = OidHexLen /\ \A i \in 1..Len(s) : IsHexChar(s[i])

ObjectIdParse(s) == [i \in 1..OidHexLen |-> HexVal(s[i])]

\* str(oid): the canonical form, 24 lower-case hex digits.
ObjectIdStr(oid) == [i \in 1..OidHexLen |-> HexChar(oid[i])]

RECURSIVE Pow16(_)
Pow16(n) == IF n = 0 THEN 1 ELSE 16 * Pow16(n - 1)

\* The k-th identifier the store assigns: a 4-byte timestamp, 5 bytes fixed
\* per process and a 3-byte counter.
NewObjectId(k) ==
    [i \in 1..OidHexLen |->
        IF i <= 8 THEN 6
        ELSE IF i <= 18 THEN 10 + (i % 6)
        ELSE (k \div Pow16(OidHexLen - i)) % 16]

(* --------------------------- sample products -------------------------- *)

\* "Smartphone X200"
T_Smartphone == <<83, 109, 97, 114, 116, 112, 104, 111, 110, 101, 32, 88, 50, 48, 48>>

\* "Noise-Canceling Headphones"
T_Headphones == <<78, 111, 105, 115, 101, 45, 67, 97, 110, 99, 101, 108, 105, 110, 103, 32, 72, 101, 97, 100, 112, 104, 111, 110, 101, 115>>

\* "4K Ultra HD TV 55"" (the last character is a double quote)
T_TV == <<52, 75, 32, 85, 108, 116, 114, 97, 32, 72, 68, 32, 84, 86, 32, 53, 53, 34>>

\* "Gaming Laptop G15"
T_Laptop == <<71, 97, 109, 105, 110, 103, 32, 76, 97, 112, 116, 111, 112, 32, 71, 49, 53>>

\* "Phones"
C_Phones == <<80, 104, 111, 110, 101, 115>>

\* "Audio"
C_Audio == <<65, 117, 100, 105, 111>>

\* "TVs"
C_TVs == <<84, 86, 115>>

\* "Computers"
C_Computers == <<67, 111, 109, 112, 117, 116, 101, 114, 115>>

\* The list with its second and third entries exchanged.
samples_reordered ==
    << [title |-> T_Smartphone,
        description |-> Some("6.5\" OLED, 128GB, Dual Camera"),
        price |-> 69900, category |-> C_Phones, in_stock |-> TRUE,
        image |-> Some("https://images.unsplash.com/photo-1511707171634-5f897ff02aa9?q=80&w=800&auto=format&fit=crop")],
       [title |-> T_TV,
        description |-> Some("55-inch, HDR10+, Smart TV"),
        price |-> 49900, category |-> C_TVs, in_stock |-> TRUE,
        image |-> Some("https://images.unsplash.com/photo-1593359677879-74010a5d13b6?q=80&w=800&auto=format&fit=crop")],
       [title |-> T_Headphones,
        description |-> Some("Over-ear, 30h battery, Bluetooth 5.2"),
        price |-> 19900, category |-> C_Audio, in_stock |-> TRUE,
        image |-> Some("https://images.unsplash.com/photo-1518441902119-52ab42fb52fb?q=80&w=800&auto=format&fit=crop")],
       [title |-> T_Laptop,
        description |-> Some("RTX 4060, 16GB RAM, 1TB SSD"),
        price |-> 149900, category |-> C_Computers, in_stock |-> TRUE,
        image |-> Some("https://images.unsplash.com/photo-1517336714731-489689fd1ca8?q=80&w=800&auto=format&fit=crop")] >>

\* The literal list of seed_products, in its order.
samples ==
    << [title |-> T_Smartphone,
        description |-> Some("6.5\" OLED, 128GB, Dual Camera"),
        price |-> 69900, category |-> C_Phones, in_stock |-> TRUE,
        image |-> Some("https://images.unsplash.com/photo-1511707171634-5f897ff02aa9?q=80&w=800&auto=format&fit=crop")],
       [title |-> T_Headphones,
        description |-> Some("Over-ear, 30h battery, Bluetooth 5.2"),
        price |-> 19900, category |-> C_Audio, in_stock |-> TRUE,
        image |-> Some("https://images.unsplash.com/photo-1518441902119-52ab42fb52fb?q=80&w=800&auto=format&fit=crop")],
       [title |-> T_TV,
        description |-> Some("55-inch, HDR10+, Smart TV"),
        price |-> 49900, category |-> C_TVs, in_stock |-> TRUE,
        image |-> Some("https://images.unsplash.com/photo-1593359677879-74010a5d13b6?q=80&w=800&auto=format&fit=crop")],
       [title |-> T_Laptop,
        description |-> Some("RTX 4060, 16GB RAM, 1TB SSD"),
        price |-> 149900, category |-> C_Computers, in_stock |-> TRUE,
        image |-> Some("https://images.unsplash.com/photo-1517336714731-489689fd1ca8?q=80&w=800&auto=format&fit=crop")] >>

(* --------------------------- document store --------------------------- *)

\* dict.get(key, default)
Get(doc, key, default) == IF key \in DOMAIN doc THEN doc[key] ELSE default

\* create_document(collection, data): the document gets the next identifier
\* and is appended; the identifier is returned in its string form.
create_document(coll, next, data) ==
    [coll |-> Append(coll, ("_id" :> NewObjectId(next)) @@ data),
     next |-> next + 1,
     id   |-> ObjectIdStr(NewObjectId(next))]

\* Whether a document satisfies a store filter: every key of the filter holds.
Matches(doc, filt) ==
    \A k \in DOMAIN filt :
        CASE k = "title"    -> RegexSearch(filt[k]["$regex"], doc.title)
          [] k = "category" -> doc.category = filt[k]
          [] k = "price"    ->
                /\ ("$gte" \in DOMAIN filt[k] => doc.price >= filt[k]["$gte"])
                /\ ("$lte" \in DOMAIN filt[k] => doc.price <= filt[k]["$lte"])
          [] OTHER          -> Get(doc, k, None) = filt[k]

\* get_documents(collection, filter): the matching documents in store order.
get_documents(coll, filt) == SelectSeq(coll, LAMBDA d : Matches(d, filt))

\* collection.find_one({"_id": oid}): the first match, or None.
find_one(coll, oid) ==
    LET hits == SelectSeq(coll, LAMBDA d : d["_id"] = oid)
    IN  IF hits = <<>> THEN None ELSE Some(hits[1])

\* collection.distinct("category")
distinct(coll) == {coll[i].category : i \in 1..Len(coll)}

\* collection.count_documents({})
count_documents(coll) == Len(coll)

\* db.list_collection_names(): a collection exists once it holds a document.
list_collection_names(coll) == IF coll = <<>> THEN <<>> ELSE <<"product">>

(* ------------------------- schema validation -------------------------- *)

\* ProductIn with the ge=0 constraint on price left out.
ProductIn_no_ge(raw) ==
    /\ raw.title # None
    /\ raw.price # None
    /\ raw.category # None

\* ProductIn: title, price and category are required, price has ge=0.
ProductIn(raw) ==
    /\ raw.title # None
    /\ raw.price # None
    /\ raw.price[1] >= 0
    /\ raw.category # None

\* payload.model_dump(): every field, the defaults filled in.
model_dump(raw) ==
    [title       |-> raw.title[1],
     description |-> raw.description,
     price       |-> raw.price[1],
     category    |-> raw.category[1],
     in_stock    |-> IF raw.in_stock = None THEN TRUE ELSE raw.in_stock[1],
     image       |-> raw.image]

\* ProductSchema(**data): title and category non-empty, price >= 0.
ProductSchema(data) ==
    /\ data.title # <<>>
    /\ data.category # <<>>
    /\ data.price >= 0

(* ------------------------------ handlers ------------------------------ *)

\* The framework's answer to an exception that leaves a handler.
InternalError == [status |-> 500, body |-> "Internal Server Error"]

\* serialize_product with in_stock read as `doc.get("in_stock") or True`.
serialize_product_or_true(doc) ==
    [id          |-> ObjectIdStr(Get(doc, "_id", None)),
     title       |-> Get(doc, "title", None),
     description |-> Get(doc, "description", None),
     price       |-> Get(doc, "price", None),
     category    |-> Get(doc, "category", None),
     in_stock    |-> TRUE,
     image       |-> Get(doc, "image", None)]

serialize_product(doc) ==
    [id          |-> ObjectIdStr(Get(doc, "_id", None)),
     title       |-> Get(doc, "title", None),
     description |-> Get(doc, "description", None),
     price       |-> Get(doc, "price", None),
     category    |-> Get(doc, "category", None),
     in_stock    |-> Get(doc, "in_stock", TRUE),
     image       |-> Get(doc, "image", None)]

\* [serialize_product(d) for d in docs]
RECURSIVE serialize_all(_)
serialize_all(docs) ==
    IF docs = <<>> THEN <<>>
    ELSE <<serialize_product(Head(docs))>> \o serialize_all(Tail(docs))

\* The filter list_products builds from its query parameters.
BuildFilter(q, category, min_price, max_price) ==
    LET none  == [k \in {} |-> None]
        title == IF Truthy(q)
                 THEN "title" :> (("$regex" :> q[1]) @@ ("$options" :> "i"))
                 ELSE none
        cat   == IF Truthy(category) THEN "category" :> category[1] ELSE none
        gte   == IF min_price # None THEN "$gte" :> min_price[1] ELSE none
        lte   == IF max_price # None THEN "$lte" :> max_price[1] ELSE none
        price == IF min_price # None \/ max_price # None
                 THEN "price" :> (gte @@ lte)
                 ELSE none
    IN  title @@ cat @@ price

\* GET /api/products.  raises: the store call throws.
list_products(dbh, coll, q, category, min_price, max_price, raises) ==
    IF ~dbh THEN [status |-> 200, body |-> <<>>]
    ELSE IF raises THEN InternalError
    ELSE LET docs == get_documents(coll, BuildFilter(q, category, min_price, max_price))
         IN  [status |-> 200,
              body   |-> serialize_all(docs)]

\* get_product with the identifier parsed before the handle is checked.
get_product_parse_first(dbh, coll, product_id, raises) ==
    IF ~ObjectIdValid(product_id)
    THEN [status |-> 400, body |-> "Invalid product id"]
    ELSE IF ~dbh THEN [status |-> 503, body |-> "Database unavailable"]
    ELSE IF raises THEN InternalError
    ELSE LET doc == find_one(coll, ObjectIdParse(product_id))
         IN  IF doc = None
             THEN [status |-> 404, body |-> "Product not found"]
             ELSE [status |-> 200, body |-> serialize_product(doc[1])]

\* GET /api/products/{product_id}
get_product(dbh, coll, product_id, raises) ==
    IF ~dbh THEN [status |-> 503, body |-> "Database unavailable"]
    ELSE IF ~ObjectIdValid(product_id)
         THEN [status |-> 400, body |-> "Invalid product id"]
    ELSE IF raises THEN InternalError
    ELSE LET doc == find_one(coll, ObjectIdParse(product_id))
         IN  IF doc = None
             THEN [status |-> 404, body |-> "Product not found"]
             ELSE [status |-> 200, body |-> serialize_product(doc[1])]

\* create_product taking the body as an unvalidated dict.
create_product_unvalidated(dbh, coll, next, raw, raises) ==
    IF raw.title = None \/ raw.price = None \/ raw.category = None
    THEN [status |-> 422, body |-> "validation error", coll |-> coll, next |-> next]
    ELSE IF ~dbh \/ raises
    THEN [status |-> 500, body |-> InternalError.body, coll |-> coll, next |-> next]
    ELSE LET r == create_document(coll, next, model_dump(raw))
         IN  [status |-> 200, body |-> r.id, coll |-> r.coll, next |-> r.next]

\* POST /api/products: the response, and the collection and identifier
\* counter it leaves.  The payload is bound to ProductIn before the handler
\* body runs; create_document throws without a store handle.
create_product(dbh, coll, next, raw, raises) ==
    IF ~ProductIn(raw)
    THEN [status |-> 422, body |-> "validation error", coll |-> coll, next |-> next]
    ELSE IF ~ProductSchema(model_dump(raw)) \/ ~dbh \/ raises
    THEN [status |-> 500, body |-> InternalError.body, coll |-> coll, next |-> next]
    ELSE LET r == create_document(coll, next, model_dump(raw))
         IN  [status |-> 200, body |-> r.id, coll |-> r.coll, next |-> r.next]

RECURSIVE in_store_order(_, _)
\* The values of a sequence in order of first occurrence, the empty ones
\* and those already seen left out.
in_store_order(cats, seen) ==
    IF cats = <<>> THEN <<>>
    ELSE IF Head(cats) = <<>> \/ Head(cats) \in seen
         THEN in_store_order(Tail(cats), seen)
         ELSE <<Head(cats)>> \o in_store_order(Tail(cats), seen \cup {Head(cats)})

\* list_categories without the call of sorted().
list_categories_unsorted(dbh, coll, raises) ==
    IF ~dbh THEN [status |-> 200, body |-> <<>>]
    ELSE IF raises THEN InternalError
    ELSE [status |-> 200,
          body |-> in_store_order([i \in 1..Len(coll) |-> coll[i].category], {})]

\* GET /api/categories
list_categories(dbh, coll, raises) ==
    IF ~dbh THEN [status |-> 200, body |-> <<>>]
    ELSE IF raises THEN InternalError
    ELSE [status |-> 200, body |-> sorted({c \in distinct(coll) : c # <<>>})]

\* GET /test
test_database(dbh, coll, raises, hasUrl, hasName) ==
    LET names == list_collection_names(coll)
    IN [status |-> 200,
        body |->
          [backend  |-> "Running",
           database |-> IF ~dbh THEN "Available but not initialized"
                        ELSE IF raises THEN "Connected but Error"
                        ELSE "Connected & Working",
           database_url  |-> IF hasUrl THEN "Set" ELSE "Not Set",
           database_name |-> IF hasName THEN "Set" ELSE "Not Set",
           connection_status |-> IF dbh THEN "Connected" ELSE "Not Connected",
           collections |-> IF ~dbh \/ raises THEN <<>>
                           ELSE SubSeq(names, 1, IF Len(names) < 10 THEN Len(names) ELSE 10)]]

(* ------------------------------- inputs ------------------------------- *)

\* "Earbuds"
T_Earbuds == <<69, 97, 114, 98, 117, 100, 115>>

\* "tv"
T_tv == <<116, 118>>

\* "audio"
C_audio == <<97, 117, 100, 105, 111>>

\* "."
Q_dot == <<46>>

Payload(t, d, p, c, s, i) ==
    [title |-> t, description |-> d, price |-> p, category |-> c,
     in_stock |-> s, image |-> i]

\* Create payloads that pass validation.
ValidPayloads ==
    { Payload(Some(T_Earbuds), None, Some(4999), Some(C_Audio), None, None),
      Payload(Some(T_tv), Some("d"), Some(0), Some(C_audio), Some(FALSE), Some("u")) }

\* Create payloads that fail it: a negative price (alone, and with every
\* other field given), a missing title, an empty title.
InvalidPayloads ==
    { Payload(Some(T_Earbuds), None, Some(-1), Some(C_Audio), None, None),
      Payload(Some(T_tv), Some("d"), Some(-4999), Some(C_audio), Some(FALSE), Some("u")),
      Payload(None, None, Some(4999), Some(C_Audio), None, None),
      Payload(Some(<<>>), None, Some(4999), Some(C_Audio), None, None) }

Payloads == ValidPayloads \cup InvalidPayloads

QInputs == {None, Some(T_tv), Some(Q_dot)}

CategoryInputs == {None, Some(<<>>), Some(C_Audio)}

MinPriceInputs == {None, Some(0), Some(19900)}

MaxPriceInputs == {None, Some(49900)}

\* The upper-case spelling of an identifier string.
Upper(s) == [i \in 1..Len(s) |-> IF s[i] >= 97 /\ s[i] <= 122 THEN s[i] - 32 ELSE s[i]]

\* Identifier strings a client may ask for: the canonical and the upper-case
\* form of the first identifier the store assigns, of the first it assigns
\* after the samples and of one it never assigns, and malformed ones: empty,
\* a digit short, a digit long, a non-hex letter.
IdInputs ==
    LET canon == {ObjectIdStr(NewObjectId(k)) :
                     k \in {0, Len(samples), Len(samples) + MaxCreates + 1}}
        one   == ObjectIdStr(NewObjectId(0))
    IN  canon \cup {Upper(c) : c \in canon}
          \cup { <<>>, SubSeq(one, 1, OidHexLen - 1), Append(one, 48),
                 [one EXCEPT ![1] = 103] }

(* ------------------------------- state -------------------------------- *)

VARIABLES
    product,    \* the "product" collection: its documents in insertion order
    nextOid,    \* identifiers the store has assigned so far
    db,         \* whether the module-level store handle is set (not None)
    storeUp,    \* whether a store call made now succeeds (else it throws)
    pc,         \* per instance: "down", "startup", "seeding", "serving"
    seedIdx,    \* per instance: the sample the seeding loop inserts next
    last,       \* the last step: operation, inputs, response
    prev,       \* the collection before the last step
    issued,     \* identifiers returned by create_product, with their payloads
    seeded,     \* identifiers of the documents the seeder inserted
    seedLog     \* per instance: "running" once its latest seed_products run
                \* read a count of 0, "completed" once that run inserted
                \* every sample, "none" otherwise

vars == <<product, nextOid, db, storeUp, pc, seedIdx, last, prev, issued, seeded, seedLog>>

Step(op, args, status, body) == [op |-> op, args |-> args, status |-> status, body |-> body]

\* The store handle is set at import from the deployment's configuration,
\* the same for every start.
Init ==
    /\ product = <<>>
    /\ nextOid = 0
    /\ db \in BOOLEAN
    /\ storeUp = TRUE
    /\ pc = [i \in Inst |-> "down"]
    /\ seedIdx = [i \in Inst |-> 0]
    /\ last = Step("init", <<>>, 0, <<>>)
    /\ prev = <<>>
    /\ issued = {}
    /\ seeded = {}
    /\ seedLog = [i \in Inst |-> "none"]

(* ----------------------------- environment ---------------------------- *)

\* The store becomes unreachable, or reachable again: from then on a store
\* call throws, or succeeds.
StoreFlips ==
    /\ db
    /\ storeUp' = ~storeUp
    /\ last' = Step("store", <<>>, 0, <<>>)
    /\ prev' = product
    /\ UNCHANGED <<product, nextOid, db, pc, seedIdx, issued, seeded, seedLog>>

(* ------------------------------ lifecycle ----------------------------- *)

\* The process starts.
Start(i) ==
    /\ pc[i] = "down"
    /\ pc' = [pc EXCEPT ![i] = "startup"]
    /\ seedLog' = [seedLog EXCEPT ![i] = "none"]
    /\ last' = Step("start", <<i>>, 0, <<>>)
    /\ prev' = product
    /\ UNCHANGED <<product, nextOid, db, storeUp, seedIdx, issued, seeded>>

\* The process shuts down.
Stop(i) ==
    /\ pc[i] = "serving"
    /\ pc' = [pc EXCEPT ![i] = "down"]
    /\ last' = Step("stop", <<i>>, 0, <<>>)
    /\ prev' = product
    /\ UNCHANGED <<product, nextOid, db, storeUp, seedIdx, issued, seeded, seedLog>>

\* The count test written as count >= 0.
seed_needed_always(count) == count >= 0

\* seed_products inserts only into an empty collection.
seed_needed(count) == count = 0

\* An insert that skips a sample whose title the collection already holds.
seed_insert_if_absent(coll, next, s) ==
    IF \E k \in 1..Len(coll) : coll[k].title = s.title
    THEN [coll |-> coll, next |-> next, id |-> None]
    ELSE create_document(coll, next, s)

\* seed_products inserts one sample.
seed_insert(coll, next, s) == create_document(coll, next, s)

\* seed_products up to its decision: no handle, the count throws (swallowed),
\* the collection is not empty, or the loop over the samples begins.
SeedCheck(i) ==
    /\ pc[i] = "startup"
    /\ LET how == IF ~db THEN "nodb"
                  ELSE IF ~storeUp THEN "failed"
                  ELSE IF seed_needed(count_documents(product)) THEN "running"
                  ELSE "nonempty"
       IN  /\ seedLog' = [seedLog EXCEPT ![i] = IF how = "running" THEN "running" ELSE "none"]
           /\ pc' = [pc EXCEPT ![i] = IF how = "running" THEN "seeding" ELSE "serving"]
           /\ seedIdx' = [seedIdx EXCEPT ![i] = IF how = "running" THEN 1 ELSE 0]
           /\ last' = Step("seed_products", <<i>>, 0, how)
    /\ prev' = product
    /\ UNCHANGED <<product, nextOid, db, storeUp, issued, seeded>>

\* One turn of the loop: create_document on the next sample; an exception
\* ends seed_products silently.
SeedInsert(i) ==
    /\ pc[i] = "seeding"
    /\ IF ~storeUp
       THEN /\ seedLog' = [seedLog EXCEPT ![i] = "none"]
            /\ pc' = [pc EXCEPT ![i] = "serving"]
            /\ seedIdx' = [seedIdx EXCEPT ![i] = 0]
            /\ last' = Step("seed_products", <<i>>, 0, "failed")
            /\ UNCHANGED <<product, nextOid, seeded>>
       ELSE LET r    == seed_insert(product, nextOid, samples[seedIdx[i]])
                done == seedIdx[i] = Len(samples)
            IN  /\ product' = r.coll
                /\ nextOid' = r.next
                /\ seeded' = seeded \cup {r.coll[k]["_id"] : k \in (Len(product) + 1)..Len(r.coll)}
                /\ seedLog' = [seedLog EXCEPT ![i] = IF done THEN "completed" ELSE "running"]
                /\ pc' = [pc EXCEPT ![i] = IF done THEN "serving" ELSE "seeding"]
                /\ seedIdx' = [seedIdx EXCEPT ![i] = IF done THEN 0 ELSE seedIdx[i] + 1]
                /\ last' = Step("seed_products", <<i>>, 0, IF done THEN "completed" ELSE "running")
    /\ prev' = product
    /\ UNCHANGED <<db, storeUp, issued>>

(* ------------------------------ requests ------------------------------ *)

\* A request that reads: only the record of the last step changes.
Reads(op, args, resp) ==
    /\ last' = Step(op, args, resp.status, resp.body)
    /\ prev' = product
    /\ UNCHANGED <<product, nextOid, db, storeUp, pc, seedIdx, issued, seeded, seedLog>>

ReadRoot(i) ==
    /\ pc[i] = "serving"
    /\ Reads("read_root", <<>>, [status |-> 200, body |-> "Electronics Store Backend is running"])

Hello(i) ==
    /\ pc[i] = "serving"
    /\ Reads("hello", <<>>, [status |-> 200, body |-> "Hello from the backend API!"])

TestDatabase(i) ==
    /\ pc[i] = "serving"
    /\ \E hasUrl \in BOOLEAN, hasName \in BOOLEAN :
          Reads("test_database", <<>>,
                test_database(db, product, ~storeUp, hasUrl, hasName))

ListProducts(i) ==
    /\ pc[i] = "serving"
    /\ \E q \in QInputs, c \in CategoryInputs, lo \in MinPriceInputs, hi \in MaxPriceInputs :
          Reads("list_products",
                [q |-> q, category |-> c, min_price |-> lo, max_price |-> hi],
                list_products(db, product, q, c, lo, hi, ~storeUp))

GetProduct(i) ==
    /\ pc[i] = "serving"
    /\ \E id \in IdInputs :
          Reads("get_product", [product_id |-> id],
                get_product(db, product, id, ~storeUp))

ListCategories(i) ==
    /\ pc[i] = "serving"
    /\ Reads("list_categories", <<>>, list_categories(db, product, ~storeUp))

\* Documents in the collection that the create endpoint added.
Created == Len(product) - Cardinality(seeded)

CreateProduct(i) ==
    /\ pc[i] = "serving"
    /\ Created < MaxCreates
    /\ \E raw \in Payloads :
        LET r == create_product(db, product, nextOid, raw, ~storeUp)
        IN  /\ product' = r.coll
            /\ nextOid' = r.next
            /\ issued' = IF r.status = 200
                         THEN issued \cup {[id |-> r.body, payload |-> raw]}
                         ELSE issued
            /\ last' = Step("create_product", [payload |-> raw], r.status, r.body)
    /\ prev' = product
    /\ UNCHANGED <<db, storeUp, pc, seedIdx, seeded, seedLog>>

(* --------------------------- specifications --------------------------- *)

\* One process instance, started and restarted one run after another: its
\* startup handler finishes before it serves a request.
Next ==
    \/ StoreFlips
    \/ Start(1)
    \/ SeedCheck(1)
    \/ SeedInsert(1)
    \/ ReadRoot(1)
    \/ Hello(1)
    \/ TestDatabase(1)
    \/ ListProducts(1)
    \/ GetProduct(1)
    \/ CreateProduct(1)
    \/ ListCategories(1)
    \/ Stop(1)

Spec == Init /\ [][Next]_vars

\* Several instances against the same store, their startups interleaved
\* store call by store call.
NextConc ==
    \/ StoreFlips
    \/ \E i \in Inst : Start(i)
    \/ \E i \in Inst : SeedCheck(i)
    \/ \E i \in Inst : SeedInsert(i)
    \/ \E i \in Inst : Stop(i)

SpecConc == Init /\ [][NextConc]_vars

(* ------------------------------ properties ---------------------------- *)

\* The last step was this request.
Was(op) == last.op = op

\* C1: a create request whose payload has price < 0 fails with a validation
\* error (422) and leaves the product collection as it was, whatever the
\* other fields and the store's contents.
C1_NegativePriceRejected ==
    (Was("create_product") /\ last.args.payload.price # None
        /\ last.args.payload.price[1] < 0)
    => (last.status = 422 /\ product = prev)

\* A negative price, every other field given, against a store that holds
\* products, was rejected.
C1_Witness ==
    /\ Was("create_product")
    /\ last.args.payload.price = Some(-4999)
    /\ last.args.payload.in_stock = Some(FALSE)
    /\ db /\ storeUp
    /\ Len(product) > Len(samples)
    /\ last.status = 422

\* What a fetched product must show for a payload: the fields as given,
\* in_stock true when omitted, description and image null when omitted.
ReadsBack(body, raw) ==
    /\ body.title = raw.title[1]
    /\ body.price = raw.price[1]
    /\ body.category = raw.category[1]
    /\ body.in_stock = (IF raw.in_stock = None THEN TRUE ELSE raw.in_stock[1])
    /\ body.description = (IF raw.description = None THEN None ELSE Some(raw.description[1]))
    /\ body.image = (IF raw.image = None THEN None ELSE Some(raw.image[1]))

\* A payload the create endpoint must accept: title and category non-empty
\* text, price a number >= 0.
IsValidPayload(raw) ==
    /\ raw.title # None /\ raw.title[1] # <<>>
    /\ raw.category # None /\ raw.category[1] # <<>>
    /\ raw.price # None /\ raw.price[1] >= 0

\* C2: with the store available, creating a valid payload returns an
\* identifier, and from then on, whatever was created before or since,
\* get_product of that identifier answers the product with the fields of
\* the payload.
C2_CreateThenFetch ==
    (db /\ storeUp) =>
        /\ (Was("create_product") /\ IsValidPayload(last.args.payload))
              => (last.status = 200
                  /\ [id |-> last.body, payload |-> last.args.payload] \in issued)
        /\ \A r \in issued :
              LET g == get_product(db, product, r.id, FALSE)
              IN  g.status = 200 /\ g.body.id = r.id /\ ReadsBack(g.body, r.payload)

\* Two products were created after the samples, and the first of them, whose
\* payload left in_stock, description and image out, was fetched.
C2_Witness ==
    /\ Was("get_product")
    /\ last.status = 200
    /\ Cardinality(issued) = 2
    /\ Cardinality(seeded) = Len(samples)
    /\ \E r \in issued :
          /\ r.id = last.args.product_id
          /\ r.payload.in_stock = None
          /\ last.body.in_stock = TRUE
          /\ last.body.description = None
          /\ last.body.image = None

\* 24 hexadecimal digits.
WellFormedId(id) ==
    /\ Len(id) = 24
    /\ \A k \in 1..Len(id) :
          id[k] \in (48..57) \cup (65..70) \cup (97..102)

\* The stored product an identifier string names, if any.
StoredAs(coll, id) ==
    {k \in 1..Len(coll) :
        \A j \in 1..24 : Fold(ObjectIdStr(coll[k]["_id"])[j]) = Fold(id[j])}

\* C4: get_product answers 503 without a store handle, whatever the id; with
\* the store available 400 for a malformed id, 404 for a well-formed id of no
\* stored product, and the product for a well-formed id of a stored one; the
\* collection is unchanged in every case.
C4_GetProductOutcome ==
    Was("get_product") =>
        LET id == last.args.product_id
        IN  /\ product = prev
            /\ ~db => last.status = 503
            /\ (db /\ storeUp /\ ~WellFormedId(id)) => last.status = 400
            /\ (db /\ storeUp /\ WellFormedId(id) /\ StoredAs(product, id) = {})
                  => last.status = 404
            /\ (db /\ storeUp /\ WellFormedId(id) /\ StoredAs(product, id) # {})
                  => /\ last.status = 200
                     /\ \E k \in StoredAs(product, id) :
                           /\ last.body.title = product[k].title
                           /\ last.body.price = product[k].price
                           /\ last.body.category = product[k].category

\* A stored product was fetched by the upper-case spelling of its id.
C4_Witness ==
    /\ Was("get_product")
    /\ last.status = 200
    /\ last.args.product_id # last.body.id
    /\ last.body.title = T_Earbuds

\* C10: every stored product has price >= 0.
C10_PriceNonNegative == \A k \in 1..Len(product) : product[k].price >= 0

\* Samples and a created product at price 0 are stored, and a create with a
\* negative price has just been answered.
C10_Witness ==
    /\ Len(product) = Len(samples) + 1
    /\ \E k \in 1..Len(product) : product[k].price = 0
    /\ Was("create_product")
    /\ last.args.payload.price = Some(-1)

\* The text holds the query as a substring, letter case ignored.
ContainsIgnoreCase(text, query) ==
    \E i \in 1..(Len(text) + 1) :
        /\ i + Len(query) - 1 <= Len(text)
        /\ \A k \in 1..Len(query) : Fold(text[i + k - 1]) = Fold(query[k])

\* The predicates of the query parameters that are given, on one document.
\* An empty q or category is read as not given.
SatisfiesAll(doc, args) ==
    /\ Truthy(args.q) => ContainsIgnoreCase(doc.title, args.q[1])
    /\ Truthy(args.category) => doc.category = args.category[1]
    /\ args.min_price # None => doc.price >= args.min_price[1]
    /\ args.max_price # None => doc.price <= args.max_price[1]

\* C3: with the store available, list_products returns exactly the stored
\* products that satisfy every given predicate (title contains q ignoring
\* case, category equal, min_price <= price <= max_price), in store order.
C3_ListReturnsExactlyMatching ==
    (Was("list_products") /\ db /\ storeUp) =>
        LET hits == SelectSeq(product, LAMBDA d : SatisfiesAll(d, last.args))
        IN  /\ last.status = 200
            /\ Len(last.body) = Len(hits)
            /\ \A k \in 1..Len(hits) :
                  last.body[k].id = ObjectIdStr(hits[k]["_id"])

\* C5: a store call that throws during list_products or list_categories,
\* the store handle being present, is answered with an empty array and not
\* with an HTTP error.
C5_StoreErrorsGiveEmptyList ==
    ((Was("list_products") \/ Was("list_categories")) /\ db /\ ~storeUp)
    => (last.status = 200 /\ last.body = <<>>)

\* Title, price and category of each entry of a sequence of products.
Brief(ps) ==
    [k \in 1..Len(ps) |->
        [title |-> ps[k].title, price |-> ps[k].price, category |-> ps[k].category]]

\* The four sample products of the scenario, in the order inserted.
FourSamples ==
    << [title |-> T_Smartphone, price |-> 69900,  category |-> C_Phones],
       [title |-> T_Headphones, price |-> 19900,  category |-> C_Audio],
       [title |-> T_TV,         price |-> 49900,  category |-> C_TVs],
       [title |-> T_Laptop,     price |-> 149900, category |-> C_Computers] >>

NoParams == [q |-> None, category |-> None, min_price |-> None, max_price |-> None]

\* C6: when seed_products has run against an empty collection and no store
\* call failed, the collection holds exactly the 4 sample products, and
\* while only they are stored list_products without parameters answers them
\* in insertion order and list_categories answers Audio, Computers, Phones,
\* TVs.
C6_SeedsEmptyStore ==
    /\ (Was("seed_products") /\ last.body = "completed")
          => /\ Brief(product) = FourSamples
             /\ \A k \in 1..Len(product) : product[k].in_stock
             /\ Brief(list_products(db, product, None, None, None, None, FALSE).body)
                   = FourSamples
             /\ list_categories(db, product, FALSE).body
                   = <<C_Audio, C_Computers, C_Phones, C_TVs>>
    /\ (db /\ storeUp /\ Cardinality(seeded) = 4 /\ Len(product) = 4)
          => /\ (Was("list_products") /\ last.args = NoParams)
                   => Brief(last.body) = FourSamples
             /\ Was("list_categories")
                   => last.body = <<C_Audio, C_Computers, C_Phones, C_TVs>>

\* After seeding an empty store, the product list was requested without
\* parameters and held the four samples.
C6_Witness ==
    /\ Was("list_products")
    /\ last.args = NoParams
    /\ Cardinality(seeded) = 4
    /\ Len(product) = 4
    /\ Len(last.body) = 4
    /\ last.body[4].title = T_Laptop

\* C7 as claimed: seed_products leaves a non-empty collection unchanged, and
\* after any start against a store that began empty (no product created
\* through the API, no store call failing in this start) the collection
\* holds exactly the 4 samples.
C7_ExactlyFourAfterAnyStart ==
    /\ (Was("seed_products") /\ last.body = "nonempty")
          => (product = prev /\ prev # <<>>)
    /\ Cardinality(seeded) <= 4
    /\ (db /\ Was("seed_products") /\ last.body \in {"completed", "nonempty"}
          /\ Cardinality(issued) = 0)
          => Brief(product) = FourSamples

\* C7 (amended): seed_products inserts only when the count is 0: a run
\* against a collection that is not empty leaves it unchanged, a run that
\* inserts found it empty, and run after run the seeder's documents are never
\* more than 4, and exactly the 4 samples once a run has inserted them all.
C7_SeederIdempotent ==
    /\ (Was("seed_products") /\ last.body = "nonempty")
          => (product = prev /\ prev # <<>>)
    /\ (Was("seed_products") /\ prev # <<>> /\ product # prev)
          => (\A k \in 1..Len(prev) : prev[k]["_id"] \in seeded)
    /\ Cardinality(seeded) <= 4
    /\ seedLog[1] = "completed" => Cardinality(seeded) = 4
    /\ Cardinality(seeded) = 4
          => Brief(SelectSeq(product, LAMBDA d : d["_id"] \in seeded)) = FourSamples

\* A restart found the four samples and a created product in the store and
\* inserted nothing.
C7_Witness ==
    /\ Was("seed_products")
    /\ last.body = "nonempty"
    /\ Cardinality(seeded) = 4
    /\ Len(product) = 5

\* How many stored documents carry the fields of a sample.
Copies(s) == Cardinality({k \in 1..Len(product) : Brief(<<product[k]>>) = <<s>>})

\* The instances whose latest seeding read a count of 0 and then inserted
\* every sample.
Completed == {i \in Inst : seedLog[i] = "completed"}

\* C8: nothing excludes one instance's count check and inserts from
\* another's: every instance that read count == 0 inserts all its samples,
\* so each sample is stored once per such instance (twice when two
\* instances start together).
C8_ConcurrentSeedingDuplicates ==
    \A k \in 1..Len(FourSamples) : Copies(FourSamples[k]) >= Cardinality(Completed)

\* Both instances read count == 0 and both inserted: 8 documents, each
\* sample twice.
C8_Witness ==
    /\ Completed = {1, 2}
    /\ Len(product) = 8
    /\ Cardinality(seeded) = 8
    /\ \A k \in 1..Len(FourSamples) : Copies(FourSamples[k]) = 2

\* The sequence is strictly ascending in code-point order.
Ascending(seq) ==
    \A k \in 1..(Len(seq) - 1) :
        \E j \in 1..Len(seq[k + 1]) :
            /\ \A m \in 1..(j - 1) : m <= Len(seq[k]) /\ seq[k][m] = seq[k + 1][m]
            /\ (j > Len(seq[k]) \/ seq[k][j] < seq[k + 1][j])

\* The category values stored, the empty one left out.
StoredCategories == {product[k].category : k \in 1..Len(product)} \ {<<>>}

C9_StateInv ==
    Was("list_categories") =>
        /\ product = prev
        /\ ~db => (last.status = 200 /\ last.body = <<>>)
        /\ (db /\ storeUp) =>
              /\ last.status = 200
              /\ {last.body[k] : k \in 1..Len(last.body)} = StoredCategories
              /\ Len(last.body) = Cardinality(StoredCategories)
              /\ Ascending(last.body)
              /\ (C_audio \in StoredCategories /\ C_Computers \in StoredCategories)
                    => last.body = <<C_Audio, C_Computers, C_Phones, C_TVs, C_audio>>

\* C9: list_categories answers the distinct non-empty stored categories,
\* each once, ascending in case-sensitive order, leaves the store unchanged,
\* answers the empty array without a store handle, and a call repeated with
\* no step in between answers the same.
C9_CategoriesSortedDistinct ==
    /\ []C9_StateInv
    /\ [][(Was("list_categories") /\ last'.op = "list_categories") => last' = last]_vars

\* With the samples and a product of category "audio" stored, the listing
\* put "audio" after "TVs".
C9_Witness ==
    /\ Was("list_categories")
    /\ last.status = 200
    /\ last.body = <<C_Audio, C_Computers, C_Phones, C_TVs, C_audio>>
    /\ Len(product) = 6

====
